---- MODULE Spec2Model ----
(***************************************************************************)
(* Model of the 3DMousePlus device listener (src/listener.py) as it is     *)
(* driven by the add-on (src/tool.py register/unregister).                 *)
(*                                                                         *)
(* Two threads run: the Blender main thread (the "consumer": it calls      *)
(* activate_*, deactivate_*, *_events and kill) and the listener's worker  *)
(* thread (__run_thread).  The code takes no lock, so a thread switch may  *)
(* fall between any two attribute accesses; each action below is one step  *)
(* that CPython executes without yielding (one builtin call or one         *)
(* attribute load/store together with thread-local computation).           *)
(*                                                                         *)
(* Variables whose name starts with "h" are history variables: the code    *)
(* never reads them; they record what happened so that properties can be   *)
(* stated.                                                                 *)
(***************************************************************************)
EXTENDS Integers, Sequences, FiniteSets, TLC

\* ---------------------------------------------------------------- bounds
\* Number of events the device daemon delivers in one run.
MaxEvents == 2
\* Number of times one queue can be activated in one run.
MaxActivations == 2
\* Socket buffer size of the endlessly streaming device (StreamSpec).
MaxPending == 2
\* Largest absolute value of a component of the vectors handed to the
\* functions that are evaluated on their own (FunctionSpec).
MaxComponent == 1
\* Number of get_matrix and set_matrix calls in one run of MemoSpec.
MaxCalls == 3
\* Number of motion events delivered in one run of GestureSpec.
MaxMotions == 2

\* ------------------------------------------------------------- constants
\* Python's None, and a value that is not None.  An optional value is a
\* sequence of length 0 or 1.
None == <<>>
Some(x) == <<x>>
\* No exception.
NoError == "none"
\* The two queues of SpnavListenerBase.
Queues == {"motion", "button"}
\* Event tags on the wire: the two known ones and any other tag.
Tags == {"motion", "button", "invalid"}

VARIABLES
    spnav_listener, \* tool.py global: "None" | "listener" | "unregistered"
    queue,          \* queue[q]: None, or Some([gen |-> list object id, items |-> Seq])
    killed,         \* TRUE once b"Die!" is in the wake pipe
    cPc,            \* consumer position inside a listener method
    consumed,       \* local `consumed` of motion_events / button_events
    wPc,            \* worker position in __run_thread
    wErr,           \* exception that ended the worker, or NoError
    event,          \* worker local `event`: None or Some(event); its rgen and
                    \* cgen fields are history: the list object behind the
                    \* event's queue when it was polled / when it was checked
    wRef,           \* list object the worker loaded for its append, or None
    connOpen,       \* libspnav connection is open
    pending,        \* events buffered in the daemon socket, oldest first
    hNextId,        \* arrival number of the next delivered event
    hActs,          \* hActs[q]: number of activations of queue q so far
    hOpens,         \* number of successful spnav_open calls
    hCloses,        \* number of spnav_close calls
    hRet,           \* hRet[q]: everything the drains of q returned, in order
    hAppended,      \* events the worker appended to the list of a queue that
                    \* has stayed active since
    hDiscarded,     \* hDiscarded[q]: events buffered in q when it was deactivated
    hDirty,         \* hDirty[q]: worker appended to q since its last clear
    hNoop,          \* activate has been called on an active queue that held events
    hKillReturned   \* kill() has returned

\* State of the add-on outside the listener.
VARIABLES
    op,             \* the NDOFTransformOperator instance (tool.py): its
                    \* properties, its attributes and where it stands
    target,         \* the selected entity as the host holds it
    ctx,            \* bpy.context: mode, 3D view, add-on preferences
    hGest,          \* history of the gesture in progress
    fn,             \* input and result of the functions evaluated on their own
    mm              \* a MatrixMemo, the entity behind it, and what it last did

gestureVars == <<op, target, ctx, hGest>>
addonVars == <<gestureVars, fn, mm>>

vars == <<spnav_listener, queue, killed, cPc, consumed, wPc, wErr, event, wRef,
          connOpen, pending, hNextId, hActs, hOpens, hCloses, hRet, hAppended,
          hDiscarded, hDirty, hNoop, hKillReturned, addonVars>>

consumerVars == <<spnav_listener, killed, cPc, consumed, hKillReturned>>
workerVars == <<wPc, wErr, event, wRef>>
deviceVars == <<connOpen, pending, hNextId, hOpens, hCloses>>
queueVars == <<queue, hActs, hRet, hAppended, hDiscarded, hDirty, hNoop>>
listenerVars == <<consumerVars, workerVars, deviceVars, queueVars>>

\* ------------------------------------------------- vectors and matrices
\* mathutils values.  A Vector is a triple of integers.  The rotation part of
\* a Matrix is a 3x3 integer matrix given by rows; angles are counted in
\* quarter turns, so that every sine and cosine is -1, 0 or 1 and the matrix
\* arithmetic of the code is carried out exactly.  Scale is 1 throughout
\* (update_target_matrix copies target.scale unchanged).
Axes == 1..3
Origin == <<0, 0, 0>>
VecAdd(a, b) == <<a[1] + b[1], a[2] + b[2], a[3] + b[3]>>
VecScale(a, k) == <<a[1] * k, a[2] * k, a[3] * k>>
Identity3 == <<<<1, 0, 0>>, <<0, 1, 0>>, <<0, 0, 1>>>>
Dot(a, b) == a[1] * b[1] + a[2] * b[2] + a[3] * b[3]
MatVec(A, v) == <<Dot(A[1], v), Dot(A[2], v), Dot(A[3], v)>>
Transposed(A) ==
    <<<<A[1][1], A[2][1], A[3][1]>>, <<A[1][2], A[2][2], A[3][2]>>,
      <<A[1][3], A[2][3], A[3][3]>>>>
\* Row i of A @ B holds the products of row i of A with the columns of B.
MatMul(A, B) ==
    <<MatVec(Transposed(B), A[1]), MatVec(Transposed(B), A[2]),
      MatVec(Transposed(B), A[3])>>
\* Matrix.inverted_safe() of a rotation matrix: its transpose.
Inverted(A) == Transposed(A)

\* Cosine and sine of k quarter turns.
Cos4(k) == CASE k % 4 = 0 -> 1 [] k % 4 = 2 -> -1 [] OTHER -> 0
Sin4(k) == CASE k % 4 = 1 -> 1 [] k % 4 = 3 -> -1 [] OTHER -> 0
RotX(k) == <<<<1, 0, 0>>, <<0, Cos4(k), -Sin4(k)>>, <<0, Sin4(k), Cos4(k)>>>>
RotY(k) == <<<<Cos4(k), 0, Sin4(k)>>, <<0, 1, 0>>, <<-Sin4(k), 0, Cos4(k)>>>>
RotZ(k) == <<<<Cos4(k), -Sin4(k), 0>>, <<Sin4(k), Cos4(k), 0>>, <<0, 0, 1>>>>
\* Euler(e).to_matrix() for the default order XYZ.
EulerToMatrix(e) == MatMul(RotZ(e[3]), MatMul(RotY(e[2]), RotX(e[1])))

\* atan2 in quarter turns, for arguments that lie on an axis.
Atan2(y, x) ==
    CASE y > 0 -> 1 [] y < 0 -> -1 [] x < 0 -> 2 [] OTHER -> 0
Abs(k) == IF k < 0 THEN -k ELSE k
AbsSum(e) == Abs(e[1]) + Abs(e[2]) + Abs(e[3])
\* Matrix.to_euler(): mathutils computes two candidate triples and returns
\* the one with the smaller sum of absolute angles.
MatrixToEuler(M) ==
    LET cy == Abs(M[1][1]) + Abs(M[2][1])
        e1 == IF cy > 0
              THEN <<Atan2(M[3][2], M[3][3]), Atan2(-M[3][1], cy),
                     Atan2(M[2][1], M[1][1])>>
              ELSE <<Atan2(-M[2][3], M[2][2]), Atan2(-M[3][1], cy), 0>>
        e2 == IF cy > 0
              THEN <<Atan2(-M[3][2], -M[3][3]), Atan2(-M[3][1], -cy),
                     Atan2(-M[2][1], -M[1][1])>>
              ELSE e1
    IN  IF AbsSum(e1) > AbsSum(e2) THEN e2 ELSE e1

\* A pose: what a 4x4 transform matrix of unit scale holds.
Pose(loc, rot) == [loc |-> loc, rot |-> rot]
IdentityPose == Pose(Origin, Identity3)
\* Matrix.LocRotScale(loc, Euler, scale) with scale 1.
LocRotScale(loc, euler) == Pose(loc, EulerToMatrix(euler))

\* ------------------------------------------- motion events, preferences
\* spnav.SpnavMotionEvent.  A rotation component counts the torque in the
\* unit that rotate_target turns into one quarter turn (its `x / 500` is
\* absorbed in that unit); translation components are the device's integers.
SpnavMotionEvent(translation, rotation, period) ==
    [translation |-> translation, rotation |-> rotation, period |-> period]
Flags(x, y, z) == <<x, y, z>>
NoFlags == Flags(FALSE, FALSE, FALSE)
\* Addon3DMousePlusPreferences.  sensitivity[t] is sensitivity_<t>, restricted
\* to whole numbers; invert[t] holds <t>_invert_x, _y, _z and flip[t] holds
\* <t>_flip_x_y, _x_z, _y_z; use_view_axis holds use_view_axis_x, _y, _z.
Kinds == {"translation", "rotate"}
Preferences(st, sr, it, ir, ft, fr, va) ==
    [sensitivity |-> [t \in Kinds |-> IF t = "translation" THEN st ELSE sr],
     invert |-> [t \in Kinds |-> IF t = "translation" THEN it ELSE ir],
     flip |-> [t \in Kinds |-> IF t = "translation" THEN ft ELSE fr],
     use_view_axis |-> va]
\* Preferences under which apply_event_preferences should change nothing.
IdentityPreferences ==
    Preferences(1, 1, NoFlags, NoFlags, NoFlags, NoFlags, Flags(TRUE, TRUE, TRUE))

\* `vec[i] = x * sensitivity`.
Scaled(vec, sensitivity) ==
    <<vec[1] * sensitivity, vec[2] * sensitivity, vec[3] * sensitivity>>
\* Variant of Negated that negates every component, whatever the flags say.
NegatedAlways(vec, invert) == <<-vec[1], -vec[2], -vec[3]>>
\* `if getattr(prefs, "<t>_invert_<axis>"): vec[index] *= -1`, for x, y, z.
Negated(vec, invert) ==
    <<IF invert[1] THEN -vec[1] ELSE vec[1], IF invert[2] THEN -vec[2] ELSE vec[2],
      IF invert[3] THEN -vec[3] ELSE vec[3]>>
\* `vec[i0], vec[i1] = vec[i1], vec[i0]`.
Swapped(vec, i0, i1) ==
    LET at(i) == IF i = i0 THEN vec[i1] ELSE IF i = i1 THEN vec[i0] ELSE vec[i]
    IN  <<at(1), at(2), at(3)>>
\* Variant of FlipOrder that visits the pairs in the opposite order.
FlipOrderReversed == <<<<2, 3>>, <<1, 3>>, <<1, 2>>>>
\* `for axes in ("xy", "xz", "yz")`: the index pairs in the order of the loop.
FlipOrder == <<<<1, 2>>, <<1, 3>>, <<2, 3>>>>
\* Which flip flag belongs to an index pair: x_y, x_z, y_z.
FlipFlag(flip, pair) ==
    IF pair = <<1, 2>> THEN flip[1] ELSE IF pair = <<1, 3>> THEN flip[2] ELSE flip[3]
\* The loop over the pairs, from the k-th pair of the order on.
RECURSIVE Flipped(_, _, _)
Flipped(vec, flip, k) ==
    IF k > Len(FlipOrder) THEN vec
    ELSE LET pair == FlipOrder[k]
             next == IF FlipFlag(flip, pair)
                     THEN Swapped(vec, pair[1], pair[2]) ELSE vec
         IN  Flipped(next, flip, k + 1)
\* The body of the loop over ("translation", loc), ("rotate", rot).
Preferred(vec, prefs, t) ==
    Flipped(Negated(Scaled(vec, prefs.sensitivity[t]), prefs.invert[t]),
            prefs.flip[t], 1)
apply_event_preferences(ev, prefs) ==
    SpnavMotionEvent(Preferred(ev.translation, prefs, "translation"),
                     Preferred(ev.rotation, prefs, "rotate"), ev.period)

\* Variant of check_mouse_at_rest that looks at the translation only.
RestOfTranslation(ev) == \A i \in Axes : ev.translation[i] = 0
\* NDOFTransformOperator.check_mouse_at_rest: the value it stores and returns.
check_mouse_at_rest(ev) ==
    \A i \in Axes : ev.translation[i] = 0 /\ ev.rotation[i] = 0
RestEvent == SpnavMotionEvent(Origin, Origin, 0)

\* ------------------------------------------------ operator, entity, context
\* A new NDOFTransformOperator: the property defaults and __init__.  `pc` is
\* "idle" (no modal handler), "modal" (handler registered) or "raised" (an
\* exception left modal).
NewOperator ==
    [pc |-> "idle", btn |-> "NONE",
     locked_rotate |-> FALSE, locked_translate |-> FALSE, bend_mode |-> FALSE,
     initial_transform |-> None, bend_transform |-> None,
     finished |-> FALSE, mouse_at_rest |-> FALSE, should_undo |-> FALSE]
\* The selected entity.  `matrix` is matrix_basis (matrix for a pose bone) as
\* the host stores it; `drift` is what the host's `location` field reports
\* beyond the translation of the stored matrix (matrix_memo.py: reading a
\* field back is not guaranteed to give what was set).
Entity(matrix, lock_location, lock_rotation, drift) ==
    [matrix |-> matrix, lock_location |-> lock_location,
     lock_rotation |-> lock_rotation, drift |-> drift]
\* bpy.context: `view` is None when there is no area or no 3D view, else
\* Some(rotation part of region_3d.view_matrix).
Context(mode, view, prefs) == [mode |-> mode, view |-> view, prefs |-> prefs]
\* No gesture yet.  History of the gestures:
\*   motions     number of motion events delivered so far
\*   start       pose of the entity when the gesture in progress started
\*   applied     pose left by the last motion event applied in this gesture
\*   ended       how the last gesture ended: "cancel" or "confirm"
\*   report      message of the last invoke that refused to start
\*   cleared     anchor that the last bend toggle dropped, while no motion
\*               event has been drained since
\*   recaptured  the anchor dropped and the anchor recorded instead, when an
\*               event of the last modal call recorded an anchor with
\*               `cleared` set
\*   strayed     after the memo of the call had been set, a pose was written
\*               that is not the pose the same step gives from the memo's
\*               matrix alone
\*   sum         sum of the reordered translations of the events applied in
\*               this gesture, as long as `plain` holds
\*   plain       every event applied in this gesture found bend mode off and
\*               neither gesture lock set
\*   selected    number of selected entities the last invoke found
\*   drained     a motion event has been drained in this gesture
\*   term        the last terminating input of this gesture (of the last
\*               gesture, once it has ended): its type, and whether it came
\*               after a terminating input that had set should_undo the
\*               other way
\*   frozen      the entity's matrix when this gesture (the last gesture,
\*               once it has ended) was marked finished
\*   swallowed   the last modal call skipped an event that was not at rest
\*               because the gesture was finished
\*   left        number of events of the drained batch that were behind the
\*               at-rest event at which the last gesture ended
\*   last        the last event that the last modal call applied, if it
\*               applied one and the gesture goes on: the event as drained
\*               (mo), the pose (found) and the anchor (anchor) it found, the
\*               operator after check_bend_mode (o), and whether
\*               rotate_target and translate_target were called for it
NoGesture ==
    [motions |-> 0, start |-> None, applied |-> None,
     ended |-> None, report |-> None, cleared |-> None, recaptured |-> None,
     strayed |-> FALSE, sum |-> Origin, plain |-> TRUE,
     selected |-> None, drained |-> FALSE, term |-> None, frozen |-> None,
     swallowed |-> FALSE, left |-> None, last |-> None]
\* No function evaluated yet on the given input.
Unevaluated(ev, prefs) ==
    [event |-> ev, prefs |-> prefs, applied |-> None,
     mouse_at_rest |-> FALSE, rested |-> None]
\* No MatrixMemo yet for an entity that holds pose `p`.  `matrix` is the
\* memo's __matrix, `entity` the pose last assigned to the entity's matrix
\* field, `readback` the pose that reading this field gives, `got` the result
\* of the last get_matrix; hSet is the argument of the last set_matrix on
\* this memo, hGets and hSets count the calls.
NoMemo(p) ==
    [made |-> FALSE, matrix |-> None, entity |-> p, readback |-> p,
     got |-> None, hSet |-> None, hGets |-> 0, hSets |-> 0]
\* The parts of the add-on state while they are not looked at.
GestureAtRest ==
    /\ op = NewOperator
    /\ target = Entity(IdentityPose, NoFlags, NoFlags, Origin)
    /\ ctx = Context("OBJECT", None, IdentityPreferences)
    /\ hGest = NoGesture
FunctionAtRest == fn = Unevaluated(RestEvent, IdentityPreferences)
MemoAtRest == mm = NoMemo(IdentityPose)

\* ------------------------------------------------------------------ Init
\* Module load: no listener yet (tool.py `spnav_listener = None`).
ModuleLoaded ==
    /\ spnav_listener = "None"
    /\ queue = [q \in Queues |-> None]
    /\ killed = FALSE
    /\ cPc = "idle"
    /\ consumed = <<>>
    /\ wPc = "unstarted"
    /\ wErr = NoError
    /\ event = None
    /\ wRef = None
    /\ connOpen = FALSE
    /\ pending = <<>>
    /\ hNextId = 1
    /\ hActs = [q \in Queues |-> 0]
    /\ hOpens = 0
    /\ hCloses = 0
    /\ hRet = [q \in Queues |-> <<>>]
    /\ hAppended = {}
    /\ hDiscarded = [q \in Queues |-> {}]
    /\ hDirty = [q \in Queues |-> FALSE]
    /\ hNoop = FALSE
    /\ hKillReturned = FALSE

Init == ModuleLoaded /\ GestureAtRest /\ FunctionAtRest /\ MemoAtRest

\* The consumer may call a listener method: the listener exists, kill() has
\* not been called, and the main thread is not inside another method.
CanCall == spnav_listener = "listener" /\ cPc = "idle" /\ ~killed

\* ------------------------------------------------------- construction
\* register() -> SpnavListenerLinux.__init__: both queues None, the wake pipe
\* created, the worker thread started.  Nothing is opened here.
register ==
    /\ spnav_listener = "None"
    /\ spnav_listener' = "listener"
    /\ queue' = [q \in Queues |-> None]
    /\ wPc' = "open"
    /\ UNCHANGED addonVars
    /\ UNCHANGED <<killed, cPc, consumed, hKillReturned, wErr, event, wRef,
                   deviceVars, hActs, hRet, hAppended, hDiscarded, hDirty, hNoop>>

\* ------------------------------------------------ SpnavListenerBase
\* A fresh list object.  `g` identifies the object: two lists created by two
\* activations are different objects even when both are empty.
NewList(g) == Some([gen |-> g, items |-> <<>>])

\* Variant of ActivatedValue without the `is None` test: a new list every time.
ActivatedAlwaysNew(v, g) == NewList(g)

\* activate_motion / activate_button: `if self.__q is None: self.__q = []`.
ActivatedValue(v, g) == IF v = None THEN NewList(g) ELSE v

\* Variant of DeactivatedValue that leaves the attribute as it is: the list is kept.
DeactivatedKeep(v) == v

\* deactivate_motion / deactivate_button: `self.__q = None`.
DeactivatedValue(v) == None

\* tuple(list): a new tuple holding the list's elements in list order.
AsTuple(items) == [i \in 1..Len(items) |-> items[i]]

\* Variant of Clear that removes the oldest element only.
ClearHead(items) == IF items = <<>> THEN items ELSE Tail(items)

\* list.clear().
Clear(items) == SubSeq(items, 1, 0)

\* Variant of ListAppend that inserts at the front.
ListPrepend(items, e) == <<e>> \o items

\* list.append(e).
ListAppend(items, e) == Append(items, e)

Ids(items) == {items[i].id : i \in 1..Len(items)}

\* The list object held by an active queue.
TheList(q) == queue[q][1]

activate(q) ==
    /\ CanCall
    /\ queue[q] = None => hActs[q] < MaxActivations
    /\ queue' = [queue EXCEPT ![q] = ActivatedValue(queue[q], hActs[q] + 1)]
    /\ hActs' = [hActs EXCEPT ![q] = IF queue'[q] = queue[q] THEN @ ELSE @ + 1]
    /\ hDirty' = [hDirty EXCEPT ![q] = IF queue'[q] = queue[q] THEN @ ELSE FALSE]
    /\ hNoop' = (hNoop \/ (queue[q] # None /\ TheList(q).items # <<>>))
    /\ UNCHANGED addonVars
    /\ UNCHANGED <<consumerVars, workerVars, deviceVars, hRet, hAppended,
                   hDiscarded>>

deactivate(q) ==
    /\ CanCall
    /\ queue' = [queue EXCEPT ![q] = DeactivatedValue(queue[q])]
    /\ hDiscarded' = [hDiscarded EXCEPT ![q] =
                        IF queue[q] = None THEN @ ELSE @ \cup Ids(TheList(q).items)]
    /\ hAppended' = {a \in hAppended : a.q # q}
    /\ UNCHANGED addonVars
    /\ UNCHANGED <<consumerVars, workerVars, deviceVars, hActs, hRet, hDirty, hNoop>>

activate_motion == activate("motion")
activate_button == activate("button")
deactivate_motion == deactivate("motion")
deactivate_button == deactivate("button")

\* First statement of motion_events / button_events:
\* `consumed = tuple(self.__q)`.  The add-on drains only between activate and
\* deactivate (tool.py execute / modal / end_modal), so the queue is a list.
events_copy(q) ==
    /\ CanCall
    /\ queue[q] # None
    /\ consumed' = AsTuple(TheList(q).items)
    /\ cPc' = q
    /\ UNCHANGED addonVars
    /\ UNCHANGED <<spnav_listener, killed, hKillReturned, workerVars, deviceVars,
                   queueVars>>

\* Second and third statement: `self.__q.clear(); return consumed`.
events_clear(q) ==
    /\ cPc = q
    /\ queue' = [queue EXCEPT ![q][1].items = Clear(@)]
    /\ hRet' = [hRet EXCEPT ![q] = @ \o
                  [i \in 1..Len(consumed) |->
                      [id |-> consumed[i].id, rgen |-> consumed[i].rgen,
                       dgen |-> TheList(q).gen]]]
    /\ hDirty' = [hDirty EXCEPT ![q] = FALSE]
    /\ consumed' = <<>>
    /\ cPc' = "idle"
    /\ UNCHANGED addonVars
    /\ UNCHANGED <<spnav_listener, killed, hKillReturned, workerVars, deviceVars,
                   hActs, hAppended, hDiscarded, hNoop>>

motion_events_copy == events_copy("motion")
motion_events_clear == events_clear("motion")
button_events_copy == events_copy("button")
button_events_clear == events_clear("button")

\* ------------------------------------------------ SpnavListenerLinux.kill
\* unregister() -> kill(): `write(self.__tx, b"Die!")`.
kill_write ==
    /\ CanCall
    /\ killed' = TRUE
    /\ cPc' = "join"
    /\ UNCHANGED addonVars
    /\ UNCHANGED <<spnav_listener, consumed, hKillReturned, workerVars, deviceVars,
                   queueVars>>

\* The worker thread has ended, by returning or by an uncaught exception.
ThreadEnded == wPc \in {"done", "raised"}

\* `self.__thread.join()` returns once the thread has ended; unregister() then
\* drops the listener.
kill_join ==
    /\ cPc = "join"
    /\ ThreadEnded
    /\ hKillReturned' = TRUE
    /\ spnav_listener' = "unregistered"
    /\ cPc' = "idle"
    /\ UNCHANGED addonVars
    /\ UNCHANGED <<killed, consumed, workerVars, deviceVars, queueVars>>

\* ------------------------------------------------------ device daemon
\* The daemon writes one more event to the client socket.  It serves connected
\* clients only.  Events are numbered in arrival order.
NewEvent(tag) == [id |-> hNextId, tag |-> tag]

deliver ==
    /\ connOpen
    /\ hNextId <= MaxEvents
    /\ \E tag \in Tags : pending' = Append(pending, NewEvent(tag))
    /\ hNextId' = hNextId + 1
    /\ UNCHANGED addonVars
    /\ UNCHANGED <<connOpen, hOpens, hCloses, consumerVars, workerVars, queueVars>>

\* ------------------------------------------------------------ spnav.py
\* convert_spnav_event: a motion or button event, or SpnavException for any
\* other tag.
convert_spnav_event(c_event) ==
    [raises |-> c_event.tag \notin Queues, value |-> Some(c_event)]

\* spnav_poll_event: None when libspnav has no waiting event, otherwise the
\* oldest waiting event, converted.
spnav_poll_event(buf) ==
    IF buf = <<>>
    THEN [raises |-> FALSE, value |-> None]
    ELSE convert_spnav_event(Head(buf))

\* What libspnav leaves in its buffer after one poll.
AfterPoll(buf) == IF buf = <<>> THEN buf ELSE Tail(buf)

\* ------------------------------------- SpnavListenerLinux.__run_thread
\* The worker ends with an uncaught exception: the thread is gone with its
\* locals, and the statements after the raise, spnav_close() among them, do
\* not run.
Raise(exc) ==
    /\ wPc' = "raised"
    /\ wErr' = exc
    /\ event' = None
    /\ wRef' = None

\* The list object behind queue q when the worker last looked, for the
\* history: 0 stands for "q was None".
LiveGen(q) == IF queue[q] = None THEN 0 ELSE TheList(q).gen

\* `spnav_open(); new_event = spnav_fd(); assert spnav_fd != -1`.  The assert
\* compares the function object with -1 and never fails.
run_open ==
    /\ wPc = "open"
    /\ \E ok \in BOOLEAN :
         IF ok
         THEN /\ connOpen' = TRUE
              /\ hOpens' = hOpens + 1
              /\ wPc' = "select"
              /\ wErr' = wErr
              /\ UNCHANGED <<event, wRef>>
         ELSE /\ Raise("SpnavConnectionException")
              /\ UNCHANGED <<connOpen, hOpens>>
    /\ UNCHANGED addonVars
    /\ UNCHANGED <<pending, hNextId, hCloses, consumerVars, queueVars>>

\* `r, *_ = select((killed, new_event), [], [])` blocks until one of the two
\* descriptors is readable; `if killed in r: break` is tested first.
run_select ==
    /\ wPc = "select"
    /\ killed \/ pending # <<>>
    /\ wPc' = IF killed THEN "close" ELSE "poll_first"
    /\ UNCHANGED addonVars
    /\ UNCHANGED <<wErr, event, wRef, deviceVars, consumerVars, queueVars>>

\* One call of spnav_poll_event by the worker.  `noneErr` says whether the
\* call is the one followed by `assert event is not None`.
Poll(noneErr) ==
    LET got == spnav_poll_event(pending) IN
    /\ pending' = AfterPoll(pending)
    /\ IF got.raises
       THEN Raise("SpnavException")
       ELSE IF got.value = None
       THEN IF noneErr
            THEN Raise("AssertionError")
            ELSE /\ event' = None
                 /\ wPc' = "select"
                 /\ UNCHANGED <<wErr, wRef>>
       ELSE /\ event' = Some([id |-> got.value[1].id, tag |-> got.value[1].tag,
                               rgen |-> LiveGen(got.value[1].tag), cgen |-> 0])
            /\ wPc' = "check"
            /\ UNCHANGED <<wErr, wRef>>
    /\ UNCHANGED addonVars
    /\ UNCHANGED <<connOpen, hNextId, hOpens, hCloses, consumerVars, queueVars>>

\* `event = spnav_poll_event(); assert event is not None`.
run_poll_first == wPc = "poll_first" /\ Poll(TRUE)

\* `event = spnav_poll_event()` at the end of the loop body, and the loop
\* test `while event is not None`.
run_poll_next == wPc = "poll_next" /\ Poll(FALSE)

\* `isinstance(event, ...)` and `if self.__q is not None`: one attribute load.
run_check ==
    /\ wPc = "check"
    /\ wPc' = IF queue[event[1].tag] # None THEN "load" ELSE "poll_next"
    /\ event' = Some([event[1] EXCEPT !.cgen = LiveGen(event[1].tag)])
    /\ UNCHANGED addonVars
    /\ UNCHANGED <<wErr, wRef, deviceVars, consumerVars, queueVars>>

\* `self.__q.append`: the attribute is loaded a second time, and `.append`
\* is looked up on whatever it holds now.
run_load ==
    /\ wPc = "load"
    /\ IF queue[event[1].tag] = None
       THEN Raise("AttributeError")
       ELSE /\ wRef' = Some(TheList(event[1].tag).gen)
            /\ wPc' = "append"
            /\ UNCHANGED <<wErr, event>>
    /\ UNCHANGED addonVars
    /\ UNCHANGED <<deviceVars, consumerVars, queueVars>>

\* `.append(event)` on the list object loaded by run_load.  When the consumer
\* has replaced or dropped that list meanwhile, the event lands in a list
\* nobody holds.
run_append ==
    LET q == event[1].tag
        live == queue[q] # None /\ Some(TheList(q).gen) = wRef
    IN
    /\ wPc = "append"
    /\ queue' = IF live
                THEN [queue EXCEPT ![q][1].items =
                        ListAppend(@, [id |-> event[1].id, rgen |-> event[1].rgen])]
                ELSE queue
    /\ hAppended' = IF live
                    THEN hAppended \cup {[id |-> event[1].id, q |-> q]}
                    ELSE hAppended
    /\ hDirty' = IF live THEN [hDirty EXCEPT ![q] = TRUE] ELSE hDirty
    /\ wRef' = None
    /\ wPc' = "poll_next"
    /\ UNCHANGED addonVars
    /\ UNCHANGED <<wErr, event, deviceVars, consumerVars, hActs, hRet,
                   hDiscarded, hNoop>>

\* `spnav_close()` after the loop; the thread then ends.
run_close ==
    /\ wPc = "close"
    /\ connOpen' = FALSE
    /\ hCloses' = hCloses + 1
    /\ wPc' = "done"
    /\ UNCHANGED addonVars
    /\ UNCHANGED <<wErr, event, wRef, pending, hNextId, hOpens, consumerVars,
                   queueVars>>

run_thread ==
    \/ run_open
    \/ run_select
    \/ run_poll_first
    \/ run_poll_next
    \/ run_check
    \/ run_load
    \/ run_append
    \/ run_close

\* ------------------------------------------------------- specification
Next ==
    \/ register
    \/ activate_motion
    \/ activate_button
    \/ deactivate_motion
    \/ deactivate_button
    \/ motion_events_copy
    \/ motion_events_clear
    \/ button_events_copy
    \/ button_events_clear
    \/ kill_write
    \/ kill_join
    \/ deliver
    \/ run_open
    \/ run_select
    \/ run_poll_first
    \/ run_poll_next
    \/ run_check
    \/ run_load
    \/ run_append
    \/ run_close

Spec == Init /\ [][Next]_vars

\* The device never pauses: whenever the socket buffer has room the daemon
\* writes another event.  Arrival numbers are not kept (id 0).
stream ==
    /\ connOpen
    /\ Len(pending) < MaxPending
    /\ \E tag \in Tags : pending' = Append(pending, [id |-> 0, tag |-> tag])
    /\ UNCHANGED addonVars
    /\ UNCHANGED <<connOpen, hNextId, hOpens, hCloses, consumerVars, workerVars,
                   queueVars>>

\* The listener under a device that streams without end, from register() to
\* unregister().  No queue is activated here, so run_check drops every event
\* and the state space stays finite; the worker's path between select and
\* poll is the one of Spec.
StreamNext ==
    \/ register
    \/ kill_write
    \/ kill_join
    \/ stream
    \/ run_open
    \/ run_select
    \/ run_poll_first
    \/ run_poll_next
    \/ run_check
    \/ run_close

\* The operating system keeps scheduling the worker thread, and join() returns
\* once the thread has ended.  Nothing is assumed of the device.
StreamSpec ==
    /\ Init
    /\ [][StreamNext]_vars
    /\ WF_vars(run_thread)
    /\ WF_vars(kill_join)

\* ================================================= functions on their own
\* apply_event_preferences and check_mouse_at_rest, each called once on an
\* input event under some preferences.
Components == -MaxComponent..MaxComponent
SampleVectors == {<<1, 2, 3>>, <<500, 0, 0>>}
TranslationInputs ==
    {<<x, y, z>> : x \in Components, y \in Components, z \in Components}
        \cup SampleVectors
RotationInputs == {Origin, <<0, 0, 1>>, <<1, 2, 3>>}
Periods == {0, 1}
MotionInputs ==
    {SpnavMotionEvent(t, r, p) :
        t \in TranslationInputs, r \in RotationInputs, p \in Periods}
FlagSets == {Flags(x, y, z) : x \in BOOLEAN, y \in BOOLEAN, z \in BOOLEAN}
\* Every setting of the translation flags and two sensitivities, with the
\* rotation flags either all off or a mix of inversion and flips.
PreferenceInputs ==
    {Preferences(st, 1, it, rr[1], ft, rr[2], Flags(TRUE, TRUE, TRUE)) :
        st \in {1, 2}, it \in FlagSets, ft \in FlagSets,
        rr \in {<<NoFlags, NoFlags>>, <<NoFlags, Flags(TRUE, TRUE, FALSE)>>,
                <<Flags(FALSE, FALSE, TRUE), Flags(TRUE, FALSE, TRUE)>>}}

FunctionInit ==
    /\ ModuleLoaded
    /\ GestureAtRest
    /\ MemoAtRest
    /\ \E ev \in MotionInputs, prefs \in PreferenceInputs :
            fn = Unevaluated(ev, prefs)

call_apply_event_preferences ==
    /\ fn.applied = None
    /\ fn' = [fn EXCEPT !.applied = Some(apply_event_preferences(fn.event, fn.prefs))]
    /\ UNCHANGED <<listenerVars, gestureVars, mm>>

\* `self.mouse_at_rest = all(...)`, `return self.mouse_at_rest`.
call_check_mouse_at_rest ==
    /\ fn.rested = None
    /\ fn' = [fn EXCEPT !.mouse_at_rest = check_mouse_at_rest(fn.event),
                        !.rested = Some(check_mouse_at_rest(fn.event))]
    /\ UNCHANGED <<listenerVars, gestureVars, mm>>

FunctionNext == call_apply_event_preferences \/ call_check_mouse_at_rest
FunctionSpec == FunctionInit /\ [][FunctionNext]_vars

\* ====================================================== MatrixMemo on its own
\* One entity, the memos made for it one after the other, and a host that
\* reports on read-back whatever it likes.
SamplePoses ==
    {Pose(l, r) : l \in {Origin, <<1, 0, 0>>}, r \in {Identity3, RotZ(1)}}

\* Variant of get_matrix that always reads the entity.
get_matrix_live(matrix, live) == live
\* MatrixMemo.get_matrix: the cached matrix if there is one, else the
\* entity's matrix field (matrix for a pose bone, matrix_basis otherwise).
get_matrix(matrix, live) == IF matrix # None THEN matrix[1] ELSE live

MemoInit ==
    /\ ModuleLoaded
    /\ GestureAtRest
    /\ FunctionAtRest
    /\ \E p \in SamplePoses : mm = NoMemo(p)

\* MatrixMemo(target).
MatrixMemo_init ==
    /\ mm' = [mm EXCEPT !.made = TRUE, !.matrix = None, !.hSet = None]
    /\ UNCHANGED <<listenerVars, gestureVars, fn>>

\* memo.set_matrix(m): assign m to the entity's matrix field, keep m.  What
\* the host reports for the field from now on is up to the host.
call_set_matrix ==
    /\ mm.made
    /\ mm.hGets + mm.hSets < MaxCalls
    /\ \E m \in SamplePoses, r \in SamplePoses :
            mm' = [mm EXCEPT !.entity = m, !.readback = r, !.matrix = Some(m),
                             !.hSet = Some(m), !.hSets = @ + 1]
    /\ UNCHANGED <<listenerVars, gestureVars, fn>>

\* memo.get_matrix().
call_get_matrix ==
    /\ mm.made
    /\ mm.hGets + mm.hSets < MaxCalls
    /\ mm' = [mm EXCEPT !.got = Some(get_matrix(mm.matrix, mm.readback)),
                        !.hGets = @ + 1]
    /\ UNCHANGED <<listenerVars, gestureVars, fn>>

\* The host changes what it reports for the entity (another frame, a
\* constraint, a deferred assignment taking effect).
host_reports ==
    /\ \E r \in SamplePoses : r # mm.readback /\ mm' = [mm EXCEPT !.readback = r]
    /\ UNCHANGED <<listenerVars, gestureVars, fn>>

MemoNext == MatrixMemo_init \/ call_set_matrix \/ call_get_matrix \/ host_reports
MemoSpec == MemoInit /\ [][MemoNext]_vars

\* ============================================================ the gesture
\* NDOFTransformOperator (tool.py) on the main thread.  The listener is
\* running; the motion events it appends arrive one at a time, and modal
\* drains the queue in one step.  What one modal call works on is a record W:
\*   op      the operator            memo    the __matrix of this call's memo
\*   entity  the entity's matrix     h       the history
BENT_ROTATE_MOD == 16
BENT_TRANSLATE_MOD == 8

\* memo.get_matrix() / memo.set_matrix(m) inside a modal call: the host hands
\* back the matrix field as it was assigned.
Memo(W) == get_matrix(W.memo, W.entity)
set_matrix(W, m) == [W EXCEPT !.memo = Some(m), !.entity = m]

\* Variant of Locked that takes the new value on every axis.
Unlocked(lock, old, new) == new
\* `x if not l else old for x, old, l in zip(new, old, lock)`.
Locked(lock, old, new) ==
    <<IF lock[1] THEN old[1] ELSE new[1], IF lock[2] THEN old[2] ELSE new[2],
      IF lock[3] THEN old[3] ELSE new[3]>>

update_target_matrix(W, new_matrix) ==
    LET old == Memo(W)
        loc == Locked(target.lock_location, old.loc, new_matrix.loc)
        rot == Locked(target.lock_rotation, MatrixToEuler(old.rot),
                      MatrixToEuler(new_matrix.rot))
    IN  set_matrix(W, LocRotScale(loc, rot))

\* An exception leaves modal: the operator is gone, nothing is cleaned up.
\* The event at hand has not been applied.
Raised(W) == [W EXCEPT !.op.pc = "raised", !.h.last = None]

\* Variant of rotate_target that turns the whole matrix about the world
\* origin and does not put the translation back.
rotate_target_about_origin(W, view, rot) ==
    IF view = None THEN Raised(W)
    ELSE LET r == <<rot[1], rot[2], -rot[3]>>
             mod == IF W.op.bend_mode THEN BENT_ROTATE_MOD ELSE 1
             world == Memo(W)
             turn == MatMul(Inverted(view[1]),
                            MatMul(EulerToMatrix(VecScale(r, mod)), view[1]))
         IN  update_target_matrix(W, Pose(MatVec(turn, world.loc),
                                          MatMul(turn, world.rot)))

\* rotate_target(view, target, rot, memo); `view` is None or Some(matrix).
\* `view.inverted_safe()` on None raises AttributeError.
rotate_target(W, view, rot) ==
    IF view = None THEN Raised(W)
    ELSE LET r == <<rot[1], rot[2], -rot[3]>>
             mod == IF W.op.bend_mode THEN BENT_ROTATE_MOD ELSE 1
             world == Memo(W)
             turn == EulerToMatrix(VecScale(r, mod))
             a == MatMul(MatMul(Inverted(view[1]), MatMul(turn, view[1])),
                         world.rot)
         IN  update_target_matrix(W, Pose(world.loc, a))

\* The translation that translate_target computes from a start position.
Moved(view, loc, mod, world_pos) ==
    LET l == <<loc[1], loc[3], loc[2]>>
        move == VecScale(l, mod)
    IN  MatVec(Inverted(view), VecAdd(move, MatVec(view, world_pos)))

\* `target.location` (line 131): read from the entity, not from the memo.
location(W) == VecAdd(W.entity.loc, target.drift)

\* translate_target(view, target, loc, memo).
translate_target(W, view, loc) ==
    IF view = None THEN Raised(W)
    ELSE LET mod == IF W.op.bend_mode THEN BENT_TRANSLATE_MOD ELSE 1
             a == Moved(view[1], loc, mod, location(W))
             \* history: the same from the translation of the memo's matrix
             b == Moved(view[1], loc, mod, Memo(W).loc)
             world == Memo(W)
             W1 == update_target_matrix(W, Pose(a, world.rot))
             W2 == update_target_matrix(W, Pose(b, world.rot))
         IN  [W1 EXCEPT !.h.strayed = @ \/ (W.memo # None /\ W1.entity # W2.entity)]

\* preferences.get_preferred_active_view_rotation_matrix: None without an
\* area or a 3D view; else the view's rotation with the angle of every axis
\* whose use_view_axis flag is off replaced by the identity's angle.
get_preferred_active_view_rotation_matrix ==
    IF ctx.view = None THEN None
    ELSE LET angle == MatrixToEuler(ctx.view[1])
             identity_angle == MatrixToEuler(Identity3)
         IN  Some(EulerToMatrix(
                 Locked(ctx.prefs.use_view_axis, angle, identity_angle)))

\* ------------------------------------------------------- locks and keys
init_locks(o) == [o EXCEPT !.locked_translate = TRUE, !.locked_rotate = FALSE]
reset_locks(o) == [o EXCEPT !.locked_rotate = FALSE, !.locked_translate = FALSE]
\* Variant of flip_locks that only swaps the two locks.
flip_locks_swap(o) ==
    [o EXCEPT !.locked_rotate = o.locked_translate,
              !.locked_translate = o.locked_rotate]
flip_locks(o) ==
    LET f == [o EXCEPT !.locked_rotate = o.locked_translate,
                       !.locked_translate = o.locked_rotate]
    IN  IF f.locked_translate = f.locked_rotate THEN init_locks(f) ELSE f

\* Variant of toggle_bend_mode that keeps the anchor when bend mode goes off.
toggle_bend_mode_keep(W) == [W EXCEPT !.op.bend_mode = ~@]
\* toggle_bend_mode; the history notes the anchor that is dropped.
toggle_bend_mode(W) ==
    [W EXCEPT !.op.bend_transform = IF W.op.bend_mode THEN None ELSE @,
              !.op.bend_mode = ~@]
NoteToggle(W, V) ==
    [V EXCEPT !.h.cleared = IF W.op.bend_mode THEN W.op.bend_transform ELSE @]

\* What modal is called with: the four terminating event types, the keys
\* bound to ToggleModeLock, ResetModeLock and ToggleBend (get_kb), and any
\* other event; `value` is "PRESS" or "RELEASE".
Terminators == {"ESC", "RIGHTMOUSE", "LEFTMOUSE", "RET"}
Keys == {"ToggleModeLock", "ResetModeLock", "ToggleBend"}
KbEvents ==
    {[type |-> t, value |-> "PRESS"] : t \in Terminators \cup {"TIMER", "ToggleBend"}}
        \cup {[type |-> t, value |-> "RELEASE"] : t \in Keys}

\* Variant of Undo in which a cancel, once given, stays.
UndoSticky(o, type) == o.should_undo \/ type \notin {"RET", "LEFTMOUSE"}
\* `self.should_undo = event.type not in ("RET", "LEFTMOUSE")`.
Undo(o, type) == type \notin {"RET", "LEFTMOUSE"}

kb_events(W, e) ==
    IF e.type \in Terminators
    THEN [W EXCEPT !.op.should_undo = Undo(W.op, e.type),
                   !.op.finished = TRUE,
                   !.h.term = Some([type |-> e.type,
                                    turned |-> /\ W.op.finished
                                               /\ W.op.should_undo
                                                   # (e.type \notin {"RET", "LEFTMOUSE"})]),
                   !.h.frozen = IF W.op.finished THEN @ ELSE Some(W.entity)]
    ELSE IF e.type = "ToggleModeLock" /\ e.value = "RELEASE"
    THEN [W EXCEPT !.op = flip_locks(@)]
    ELSE IF e.type = "ResetModeLock" /\ e.value = "RELEASE"
    THEN [W EXCEPT !.op = reset_locks(@)]
    ELSE IF e.type = "ToggleBend" /\ e.value = "RELEASE"
    THEN NoteToggle(W, toggle_bend_mode(W))
    ELSE W

\* check_bend_mode(memo); the history notes an anchor recorded right after a
\* toggle pair, and that a motion event has now been handled.
check_bend_mode(W) ==
    IF ~W.op.bend_mode THEN W
    ELSE IF W.op.bend_transform = None
    THEN [W EXCEPT !.op.bend_transform = Some(Memo(W)),
                   !.h.recaptured =
                       IF W.h.cleared # None
                       THEN Some([old |-> W.h.cleared[1], new |-> Memo(W),
                                  last |-> W.h.applied])
                       ELSE @]
    ELSE set_matrix(W, W.op.bend_transform[1])

\* The history when a gesture ends: how it ended; what only matters while a
\* gesture runs is forgotten.
Ended(h, should_undo) ==
    [h EXCEPT !.ended = Some(IF should_undo THEN "cancel" ELSE "confirm"),
              !.cleared = None, !.recaptured = None, !.sum = Origin,
              !.plain = TRUE, !.drained = FALSE, !.swallowed = FALSE,
              !.last = None]

\* Variant of end_modal that does not restore the start transform.
end_modal_no_restore(W) ==
    [W EXCEPT !.op.finished = FALSE, !.op.mouse_at_rest = FALSE,
              !.op.initial_transform = None, !.op.should_undo = FALSE,
              !.op.bend_transform = None, !.op.pc = "idle",
              !.h = Ended(@, W.op.should_undo)]
\* Variant of end_modal that leaves bend_transform as it is.
end_modal_keep_anchor(W) ==
    LET V == IF W.op.should_undo
             THEN set_matrix(W, W.op.initial_transform[1]) ELSE W
    IN  [V EXCEPT !.op.finished = FALSE, !.op.mouse_at_rest = FALSE,
                  !.op.initial_transform = None, !.op.should_undo = FALSE,
                  !.op.pc = "idle",
                  !.h = Ended(@, W.op.should_undo)]
\* end_modal(memo): restore on cancel, reset the session attributes, return
\* {"FINISHED"} (the handler is removed).  The modal action deactivates the
\* motion queue when it sees pc = "idle".
end_modal(W) ==
    LET V == IF W.op.should_undo
             THEN set_matrix(W, W.op.initial_transform[1]) ELSE W
    IN  [V EXCEPT !.op.finished = FALSE, !.op.mouse_at_rest = FALSE,
                  !.op.initial_transform = None, !.op.should_undo = FALSE,
                  !.op.bend_transform = None, !.op.pc = "idle",
                  !.h = Ended(@, W.op.should_undo)]

\* ------------------------------------------------------------- modal
\* The history after one event has been applied and left W: `mo` is the
\* event as drained, `o` the operator after check_bend_mode (bend_transform
\* is the anchor the event was applied on).
Applied(W, mo, o) ==
    LET plain == W.h.plain /\ ~o.bend_mode /\ ~o.locked_rotate
                           /\ ~o.locked_translate
    IN  [W EXCEPT !.h.applied = Some(W.entity),
                  !.h.sum = IF plain
                            THEN VecAdd(@, <<mo.translation[1], mo.translation[3],
                                             mo.translation[2]>>)
                            ELSE Origin,
                  !.h.plain = plain]

\* Variant of the test of line 229 that heeds the rotation lock in pose mode.
RotatesUnlessLocked(mode, o) == ~o.locked_rotate
\* `context.mode == "POSE" or not self.locked_rotate`.
Rotates(mode, o) == mode = "POSE" \/ ~o.locked_rotate
\* `context.mode != "POSE" and not self.locked_translate`.
Translates(mode, o) == mode # "POSE" /\ ~o.locked_translate

\* Variant of the test of line 221 that lets a finished gesture apply events.
SwallowedAtRest(resting, finished) == resting
\* `(resting := self.check_mouse_at_rest(mo)) or self.finished`: the event
\* is not applied.
Swallowed(resting, finished) == resting \/ finished

\* The value of the one element of S: S is written {e : x \in {d}} to have
\* d computed once and used as x in e.
The(S) == CHOOSE x \in S : TRUE

\* Lines 226 to 232 for the event `mo`, not skipped, on W: the view, the
\* preferences, check_bend_mode, and the two updates behind their tests.
apply_motion(W, mo) ==
    The({The({IF W3.op.pc = "raised" \/ ~Translates(ctx.mode, W3.op) THEN W3
              ELSE The({IF T.op.pc = "raised" THEN T
                        ELSE [T EXCEPT !.h.last[1].translated = TRUE]
                        : T \in {translate_target(W3, view, ev.translation)}})
              : W3 \in {IF ~Rotates(ctx.mode, W2.op) THEN W2
                        ELSE The({IF R.op.pc = "raised" THEN R
                                  ELSE [R EXCEPT !.h.last[1].rotated = TRUE,
                                                 !.h.last[1].mid = R.entity]
                                  : R \in {rotate_target(W2, view, ev.rotation)}})}})
         : view \in {get_preferred_active_view_rotation_matrix},
           ev \in {apply_event_preferences(mo, ctx.prefs)},
           W2 \in {The({[checked EXCEPT !.h.cleared = None,
                            !.h.last = Some([mo |-> mo, found |-> Memo(W),
                                             anchor |-> W.op.bend_transform,
                                             o |-> checked.op,
                                             pre |-> checked.entity,
                                             mid |-> checked.entity,
                                             rotated |-> FALSE,
                                             translated |-> FALSE])]
                        : checked \in {check_bend_mode(W)}})}})

\* `for mo in spnav_listener.motion_events(): ...` from the i-th event of
\* the drained batch on.
RECURSIVE motion_loop(_, _, _)
\* Variant of the return of line 223 that goes on with the next event.
Continued(W, batch, i) == motion_loop(W, batch, i + 1)
\* `return self.end_modal(memo)` inside the loop: the events behind the i-th
\* are not looked at.
Returned(W, batch, i) == W
motion_loop(W, batch, i) ==
    IF i > Len(batch) THEN W
    ELSE The({
        LET mo == batch[i]
            resting == check_mouse_at_rest(mo)
            W1 == [V EXCEPT !.op.mouse_at_rest = resting, !.h.drained = TRUE]
            skipped == [W1 EXCEPT !.h.cleared = None,
                                  !.h.swallowed = @ \/ ~resting]
        IN  IF Swallowed(resting, W1.op.finished)
            THEN IF W1.op.finished /\ resting
                 THEN Returned([end_modal(skipped) EXCEPT
                                   !.h.left = Some(Len(batch) - i)], batch, i)
                 ELSE motion_loop(skipped, batch, i + 1)
            ELSE The({IF W4.op.pc = "raised" THEN W4
                      ELSE motion_loop(Applied(W4, mo, W4.h.last[1].o),
                                       batch, i + 1)
                      : W4 \in {apply_motion(W1, mo)}})
        : V \in {W}})

\* modal(context, event): one call, from the new memo to the return.
modal ==
    /\ op.pc = "modal"
    /\ \E e \in KbEvents :
        LET W0 == [op |-> [op EXCEPT !.initial_transform =
                               IF @ = None THEN Some(target.matrix) ELSE @],
                   memo |-> None, entity |-> target.matrix,
                   h |-> [hGest EXCEPT !.recaptured = None, !.swallowed = FALSE,
                                       !.last = None]]
            W1 == kb_events(W0, e)
            early == W1.op.finished /\ W1.op.mouse_at_rest
            batch == AsTuple(TheList("motion").items)
            W2 == IF early THEN end_modal(W1) ELSE motion_loop(W1, batch, 1)
        IN  \E W \in {W2} :
            /\ op' = W.op
            /\ target' = [target EXCEPT !.matrix = W.entity]
            /\ hGest' = W.h
            /\ queue' = [queue EXCEPT !["motion"] =
                   IF W.op.pc = "idle" THEN DeactivatedValue(@)
                   ELSE IF early THEN @
                   ELSE Some([TheList("motion") EXCEPT !.items = Clear(@)])]
    /\ UNCHANGED <<consumerVars, workerVars, deviceVars, hActs, hRet, hAppended,
                   hDiscarded, hDirty, hNoop, ctx, fn, mm>>

\* ------------------------------------------------------------ invoke
ERROR_MSG == "You must select a single object"
\* Variant of poll that accepts any selection that is not empty.
poll_any(selected) == selected >= 1
\* poll(context).
poll(selected) == selected = 1
\* check_button_event(context, event).
check_button_event(o, type) ==
    [o EXCEPT !.btn = IF type \in {"NDOF_BUTTON_MENU", "NDOF_BUTTON_FIT"}
                      THEN type ELSE "NONE"]
\* execute(context), but for activate_motion.
execute(o) == [o EXCEPT !.bend_transform = None, !.initial_transform = None]

\* invoke(context, event) on a new operator instance.  Its properties start
\* from the values the last run left (the host keeps the last used
\* properties of an operator), the first time from their defaults; __init__
\* sets the attributes.
invoke ==
    /\ op.pc # "modal"
    /\ \E selected \in 0..2,
          type \in {"NDOF_BUTTON_FIT", "LEFTMOUSE"} :
        LET self == [NewOperator EXCEPT !.btn = op.btn,
                         !.locked_rotate = op.locked_rotate,
                         !.locked_translate = op.locked_translate,
                         !.bend_mode = op.bend_mode]
            locked == IF self.btn = "NDOF_BUTTON_FIT"
                      THEN init_locks(self) ELSE reset_locks(self)
        IN  IF ~poll(selected)
            THEN /\ op' = self
                 /\ hGest' = [hGest EXCEPT !.report = Some(ERROR_MSG),
                                 !.selected = Some(selected)]
                 /\ UNCHANGED queue
            ELSE /\ hGest.motions < MaxMotions
                 /\ op' = [execute(check_button_event(locked, type))
                              EXCEPT !.pc = "modal"]
                 /\ queue' = [queue EXCEPT !["motion"] = ActivatedValue(@, 1)]
                 /\ hGest' = [hGest EXCEPT !.start = Some(target.matrix),
                                 !.applied = None, !.ended = None,
                                 !.report = None, !.cleared = None,
                                 !.recaptured = None, !.sum = Origin,
                                 !.plain = TRUE, !.selected = Some(selected),
                                 !.drained = FALSE, !.term = None,
                                 !.frozen = None, !.swallowed = FALSE,
                                 !.left = None, !.last = None]
    /\ UNCHANGED <<consumerVars, workerVars, deviceVars, hActs, hRet, hAppended,
                   hDiscarded, hDirty, hNoop, target, ctx, fn, mm>>

\* ------------------------------------------------------ motion events
GestureMotions ==
    {RestEvent,
     SpnavMotionEvent(<<500, 0, 0>>, Origin, 0),
     SpnavMotionEvent(<<1, 2, 3>>, <<1, 0, 1>>, 0)}

\* The worker appends one motion event to the active motion queue.
motion_arrives ==
    /\ queue["motion"] # None
    /\ hGest.motions < MaxMotions
    /\ \E mo \in GestureMotions :
          queue' = [queue EXCEPT !["motion"] =
              Some([TheList("motion") EXCEPT !.items = ListAppend(@, mo)])]
    /\ hGest' = [hGest EXCEPT !.motions = @ + 1]
    /\ UNCHANGED <<consumerVars, workerVars, deviceVars, hActs, hRet, hAppended,
                   hDiscarded, hDirty, hNoop, op, target, ctx, fn, mm>>

\* ----------------------------------------------------------- the scenes
OtherPreferences ==
    Preferences(2, 1, Flags(TRUE, FALSE, FALSE), NoFlags,
                Flags(TRUE, FALSE, FALSE), NoFlags, Flags(TRUE, TRUE, FALSE))
\* An entity and a context.  In object mode: nothing special; a host whose
\* location drifts; no view; locked axes under a turned view; other
\* preferences under a turned view.  In pose mode: a view, and no view.
Free(drift) == Entity(IdentityPose, NoFlags, NoFlags, drift)
Scenes ==
    {<<Free(Origin), Context("OBJECT", Some(Identity3), IdentityPreferences)>>,
     <<Free(<<0, 1, 0>>), Context("OBJECT", Some(Identity3), IdentityPreferences)>>,
     <<Free(Origin), Context("OBJECT", None, IdentityPreferences)>>,
     <<Entity(IdentityPose, Flags(TRUE, FALSE, FALSE), Flags(FALSE, FALSE, TRUE),
              Origin),
       Context("OBJECT", Some(RotZ(1)), IdentityPreferences)>>,
     <<Free(Origin), Context("OBJECT", Some(RotZ(1)), OtherPreferences)>>,
     <<Free(Origin), Context("POSE", Some(Identity3), IdentityPreferences)>>,
     <<Free(Origin), Context("POSE", None, IdentityPreferences)>>}

\* register() has run, the worker has opened the device and waits in select;
\* one entity is there, at the identity pose.
GestureInit ==
    /\ spnav_listener = "listener"
    /\ queue = [q \in Queues |-> None]
    /\ killed = FALSE
    /\ cPc = "idle"
    /\ consumed = <<>>
    /\ wPc = "select"
    /\ wErr = NoError
    /\ event = None
    /\ wRef = None
    /\ connOpen = TRUE
    /\ pending = <<>>
    /\ hNextId = 1
    /\ hActs = [q \in Queues |-> 0]
    /\ hOpens = 1
    /\ hCloses = 0
    /\ hRet = [q \in Queues |-> <<>>]
    /\ hAppended = {}
    /\ hDiscarded = [q \in Queues |-> {}]
    /\ hDirty = [q \in Queues |-> FALSE]
    /\ hNoop = FALSE
    /\ hKillReturned = FALSE
    /\ op = NewOperator
    /\ \E sc \in Scenes : target = sc[1] /\ ctx = sc[2]
    /\ hGest = NoGesture
    /\ FunctionAtRest
    /\ MemoAtRest

GestureNext == invoke \/ modal \/ motion_arrives
GestureSpec == GestureInit /\ [][GestureNext]_vars

\* ============================================================= properties
OtherQueue(q) == IF q = "motion" THEN "button" ELSE "motion"
ThreadStarted == wPc # "unstarted"
ThreadRunning == ThreadStarted /\ ~ThreadEnded

\* C1: a drain returns only events that the worker received after the
\* activation that created the drained list, and never an event received while
\* the queue was inactive: every returned event was polled while the very list
\* it was drained from was the queue.
C1_DrainReturnsOnlyEventsReceivedSinceActivation ==
    \A q \in Queues : \A i \in 1..Len(hRet[q]) :
        hRet[q][i].rgen = hRet[q][i].dgen

\* C2: the drain is atomic with respect to the worker: an event the worker
\* appended to a queue that has stayed active is still buffered, or is in the
\* batch being returned, or was returned by exactly one drain; it is never
\* lost and never returned twice.
C2_EveryAppendedEventDrainedExactlyOnce ==
    \A a \in hAppended :
        LET buffered == a.id \in Ids(TheList(a.q).items)
            inBatch == cPc = a.q /\ a.id \in Ids(consumed)
            times == Cardinality({i \in 1..Len(hRet[a.q]) : hRet[a.q][i].id = a.id})
        IN  /\ buffered \/ inBatch \/ times = 1
            /\ times <= 1
            /\ ~(buffered /\ times = 1)

\* C3: between the worker's check that a queue is active and its append the
\* queue cannot change under it: the worker never raises because the queue
\* became None, and the list it is about to append to is the queue's current
\* list and the one it saw at the check.
C3_NoRaceBetweenCheckAndAppend ==
    /\ wErr # "AttributeError"
    /\ wPc = "append" =>
          /\ queue[event[1].tag] # None
          /\ Some(TheList(event[1].tag).gen) = wRef
          /\ Some(event[1].cgen) = wRef

\* C4: once kill() has returned the worker thread has ended and the device
\* connection has been closed exactly once.
C4_KillReturnedImpliesClosedExactlyOnce ==
    hKillReturned => (ThreadEnded /\ hCloses = 1)

\* C5: after kill() has written to the wake pipe, kill() eventually returns,
\* whatever the device keeps delivering.
C5_KillEventuallyReturns == killed ~> hKillReturned

\* C6: a worker thread never runs without a live connection, and when the
\* connection cannot be opened no worker thread was started and construction
\* did not hand out a listener.
C6_NoWorkerWithoutConnection ==
    /\ ThreadRunning => connOpen
    /\ wErr = "SpnavConnectionException" =>
          (~ThreadStarted /\ spnav_listener # "listener")

\* C7: events of one kind are drained in arrival order, inside a batch and
\* across successive drains: the concatenation of all returned batches has
\* strictly increasing arrival numbers.
C7_DrainedInArrivalOrder ==
    \A q \in Queues : \A i, j \in 1..Len(hRet[q]) :
        i < j => hRet[q][i].id < hRet[q][j].id

\* Two motion events have been returned by drains.
C7_Witness == Len(hRet["motion"]) >= 2

\* C8: a drain is exhaustive and destructive: the copy step takes every event
\* buffered at that moment, the clear step leaves the queue an empty list, and
\* a drain that starts with no worker append since the previous clear gets an
\* empty batch.
C8_DrainExhaustiveAndDestructive ==
    [][\A q \in Queues :
         /\ events_copy(q) =>
               /\ consumed' = TheList(q).items
               /\ ~hDirty[q] => consumed' = <<>>
         /\ events_clear(q) =>
               /\ queue'[q] # None
               /\ queue'[q][1].items = <<>>]_vars

\* A second motion_events() in the same activation, with no append since the
\* clear of an earlier drain that returned events, has copied an empty batch.
C8_Witness ==
    /\ cPc = "motion"
    /\ consumed = <<>>
    /\ ~hDirty["motion"]
    /\ hActs["motion"] = 1
    /\ hRet["motion"] # <<>>

\* C9: deactivation discards the buffered events: no event that was buffered
\* in a queue when it was deactivated is returned by a drain or copied into a
\* batch.
C9_DeactivateDiscardsBuffered ==
    \A q \in Queues :
        /\ \A i \in 1..Len(hRet[q]) : hRet[q][i].id \notin hDiscarded[q]
        /\ cPc = q => Ids(consumed) \cap hDiscarded[q] = {}

\* Events were buffered at a deactivation of the motion queue, and a drain of
\* the list created by the following activation has returned an event.
C9_Witness ==
    /\ hDiscarded["motion"] # {}
    /\ \E i \in 1..Len(hRet["motion"]) : hRet["motion"][i].dgen = 2

\* C10: activate and deactivate are idempotent and per-queue: activate on an
\* active queue leaves that queue as it is, deactivate on an inactive queue
\* leaves it inactive, and neither touches the other queue.
C10_ActivateDeactivateIdempotentPerQueue ==
    [][\A q \in Queues :
         /\ activate(q) =>
               /\ queue[q] # None => queue'[q] = queue[q]
               /\ queue'[OtherQueue(q)] = queue[OtherQueue(q)]
         /\ deactivate(q) =>
               /\ queue[q] = None => queue'[q] = None
               /\ queue'[OtherQueue(q)] = queue[OtherQueue(q)]]_vars

\* activate has been called on an active queue holding events, and a queue
\* still holds events.
C10_Witness ==
    /\ hNoop
    /\ \E q \in Queues : queue[q] # None /\ TheList(q).items # <<>>

\* C11: when a gesture has ended by a cancel, the entity's transform is the
\* transform it had when the gesture started, whatever motion events, lock
\* toggles and bend toggles came in between; when it has ended by a confirm,
\* the transform is the one the last applied motion event left (the start
\* transform if no event was applied).
C11_CancelRestoresConfirmKeeps ==
    (op.pc = "idle" /\ hGest.ended # None)
    => /\ hGest.ended = Some("cancel") => target.matrix = hGest.start[1]
       /\ hGest.ended = Some("confirm")
          => target.matrix = IF hGest.applied # None THEN hGest.applied[1]
                             ELSE hGest.start[1]
\* A gesture that moved the entity was cancelled.
C11_Witness ==
    /\ op.pc = "idle"
    /\ hGest.ended = Some("cancel")
    /\ hGest.applied # None
    /\ hGest.applied[1] # hGest.start[1]
    /\ target.matrix = hGest.start[1]

\* C12: after every end_modal, cancel or confirm, bend_transform and
\* initial_transform are None, finished, mouse_at_rest and should_undo are
\* false, and the listener's motion queue is inactive.
C12_EndModalResetsSession ==
    hGest.ended # None
    => /\ op.bend_transform = None
       /\ op.initial_transform = None
       /\ ~op.finished
       /\ ~op.mouse_at_rest
       /\ ~op.should_undo
       /\ queue["motion"] = None
\* A gesture that applied an event in bend mode, and so held an anchor, has
\* ended.
C12_Witness ==
    /\ hGest.ended # None
    /\ hGest.applied # None
    /\ op.bend_mode
    /\ op.pc = "idle"

\* C13: without an active view the gesture goes on: no exception leaves
\* modal because the view is missing.
C13_NoViewNeverFails == ctx.view = None => op.pc # "raised"

\* C14: get_matrix returns the argument of the most recent set_matrix on that
\* memo if there was one and otherwise what the entity reports; set_matrix(m)
\* stores m in the memo and assigns m to the entity.  So a get after a set
\* returns the set value whatever the entity reports on read-back.
C14_MemoReturnsLastSet ==
    [][/\ (mm'.hGets = mm.hGets + 1)
          => mm'.got = Some(IF mm.hSet # None THEN mm.hSet[1] ELSE mm.readback)
       /\ (mm'.hSets = mm.hSets + 1)
          => /\ mm'.hSet # None
             /\ mm'.matrix = mm'.hSet
             /\ mm'.entity = mm'.hSet[1]]_vars
\* A get has returned the value set before while the entity reported
\* another pose.
C14_Witness ==
    /\ mm.hSet # None
    /\ mm.hGets > 0
    /\ mm.hSets > 0
    /\ mm.got = mm.hSet
    /\ mm.readback # mm.hSet[1]

\* C15: once the memo of a modal call has been set, every pose the call
\* writes is the pose computed from the memo's matrix alone; what the host
\* reports for the entity has no part in it.
C15_WritesDependOnMemoOnly == ~hGest.strayed

\* C16 as stated: when an event records an anchor right after bend mode was
\* toggled off and on with no motion event in between, that anchor is the
\* anchor held before the two toggles.
C16_AnchorSurvivesTogglePair ==
    hGest.recaptured # None
    => hGest.recaptured[1].new = hGest.recaptured[1].old
\* C16 amended: toggling bend mode off drops the anchor, so after off and on
\* with no motion event in between no anchor is recorded, and the next motion
\* event records the pose it finds, which is the pose the last applied event
\* left, as the new anchor.
C16_TogglePairDropsAnchor ==
    /\ (hGest.cleared # None /\ op.bend_mode) => op.bend_transform = None
    /\ hGest.recaptured # None
       => /\ hGest.recaptured[1].last = Some(hGest.recaptured[1].new)
          /\ op.bend_transform = Some(hGest.recaptured[1].new)
\* An event recorded an anchor after a toggle pair, and it is not the anchor
\* held before.
C16_Witness ==
    /\ hGest.recaptured # None
    /\ hGest.recaptured[1].new # hGest.recaptured[1].old
    /\ op.bend_mode

\* C17: apply_event_preferences applies the enabled flips one after the other
\* in the order xy, xz, yz, each on the result of the one before: with
\* sensitivity 1 and no inversion the output vector is the input vector taken
\* through the enabled swaps in that order, for translation and rotation.
C17_FlipsComposeInOrder ==
    \A t \in Kinds :
        (/\ fn.applied # None
         /\ fn.prefs.sensitivity[t] = 1
         /\ fn.prefs.invert[t] = NoFlags)
        => LET v == IF t = "translation" THEN fn.event.translation
                    ELSE fn.event.rotation
               out == IF t = "translation" THEN fn.applied[1].translation
                      ELSE fn.applied[1].rotation
               f == fn.prefs.flip[t]
               a == IF f[1] THEN <<v[2], v[1], v[3]>> ELSE v
               b == IF f[2] THEN <<a[3], a[2], a[1]>> ELSE a
               c == IF f[3] THEN <<b[1], b[3], b[2]>> ELSE b
           IN  out = c
\* (1,2,3) with x/y and x/z flipped has come out as (3,1,2).
C17_Witness ==
    /\ fn.applied # None
    /\ fn.event.translation = <<1, 2, 3>>
    /\ fn.prefs.sensitivity["translation"] = 1
    /\ fn.prefs.invert["translation"] = NoFlags
    /\ fn.prefs.flip["translation"] = Flags(TRUE, TRUE, FALSE)
    /\ fn.applied[1].translation = <<3, 1, 2>>

\* C18: with both sensitivities 1, no invert flag and no flip flag set,
\* apply_event_preferences returns an event whose translation, rotation and
\* period are those of its input.
C18_IdentityPreferencesChangeNothing ==
    (/\ fn.applied # None
     /\ \A t \in Kinds : /\ fn.prefs.sensitivity[t] = 1
                         /\ fn.prefs.invert[t] = NoFlags
                         /\ fn.prefs.flip[t] = NoFlags)
    => /\ fn.applied[1].translation = fn.event.translation
       /\ fn.applied[1].rotation = fn.event.rotation
       /\ fn.applied[1].period = fn.event.period
\* An event with six non-zero components and a non-zero period went through
\* the identity preferences.
C18_Witness ==
    /\ fn.applied # None
    /\ fn.prefs = IdentityPreferences
    /\ fn.event = SpnavMotionEvent(<<1, 2, 3>>, <<1, 2, 3>>, 1)

\* C19: check_mouse_at_rest returns true, and stores true in mouse_at_rest,
\* exactly when the three translation and the three rotation components of
\* the event are all zero; the period of the event does not matter.
C19_RestIffAllSixZero ==
    fn.rested # None
    => /\ fn.rested[1] = (/\ fn.event.translation = Origin
                          /\ fn.event.rotation = Origin)
       /\ fn.mouse_at_rest = fn.rested[1]
       /\ \A p \in Periods :
              check_mouse_at_rest([fn.event EXCEPT !.period = p]) = fn.rested[1]
\* An event whose only non-zero component is one rotation component was
\* found not at rest.
C19_Witness ==
    /\ fn.rested = Some(FALSE)
    /\ fn.event.translation = Origin
    /\ fn.event.rotation = <<0, 0, 1>>
    /\ fn.event.period = 1

\* C20: under the identity view, identity preferences, object mode, no
\* per-axis lock, and with bend mode off and no gesture lock at every event,
\* each motion event adds its translation reordered to (tx, tz, ty) to the
\* entity's position: the position is the start position plus the sum of the
\* reordered translations of the events applied so far.
C20_TranslationAddsReordered ==
    (/\ op.pc = "modal"
     /\ ctx = Context("OBJECT", Some(Identity3), IdentityPreferences)
     /\ target.lock_location = NoFlags
     /\ target.lock_rotation = NoFlags
     /\ hGest.plain)
    => target.matrix.loc = VecAdd(hGest.start[1].loc, hGest.sum)

\* C21: a gesture starts only with exactly one entity selected.  An invoke
\* that finds zero or more than one selected entity reports the error
\* message, leaves the motion queue as it is, registers no modal handler,
\* and leaves the gesture locks, bend mode and button as they were and the
\* session flags as __init__ set them (which is how an ended gesture left
\* them).
C21_OnlyOneSelectedStarts ==
    [][/\ (op.pc # "modal" /\ op'.pc = "modal") => hGest'.selected = Some(1)
       /\ (/\ op.pc # "modal"
           /\ hGest'.motions = hGest.motions
           /\ hGest'.selected \in {Some(0), Some(2)})
          => /\ hGest'.report = Some(ERROR_MSG)
             /\ queue' = queue
             /\ target' = target
             /\ op'.pc = "idle"
             /\ op'.locked_rotate = op.locked_rotate
             /\ op'.locked_translate = op.locked_translate
             /\ op'.bend_mode = op.bend_mode
             /\ op'.btn = op.btn
             /\ ~op'.finished /\ ~op'.mouse_at_rest /\ ~op'.should_undo
             /\ op'.initial_transform = None /\ op'.bend_transform = None
             /\ op.pc = "idle"
                => /\ op'.finished = op.finished
                   /\ op'.mouse_at_rest = op.mouse_at_rest
                   /\ op'.should_undo = op.should_undo]_vars
\* After a gesture that set a gesture lock, an invoke with two entities
\* selected was refused.
C21_Witness ==
    /\ hGest.selected = Some(2)
    /\ hGest.report = Some(ERROR_MSG)
    /\ hGest.ended # None
    /\ op.locked_translate
    /\ op.pc = "idle"
    /\ queue["motion"] = None

\* C22: a terminating input that arrives with the device at rest (the last
\* motion event processed in this gesture was at rest, or none has been
\* processed) ends the gesture in the same modal call; otherwise the gesture
\* ends in the first call that drains an at-rest event.  So a gesture that
\* is finished and still running has processed a motion event and the last
\* one was not at rest, and a call that finds it finished and drains an
\* at-rest event ends it.
C22_TerminatesAtRest ==
    [][/\ (op'.pc = "modal" /\ op'.finished)
          => (hGest'.drained /\ ~op'.mouse_at_rest)
       /\ (/\ op.pc = "modal" /\ op.finished
           /\ hGest'.motions = hGest.motions
           /\ \E i \in 1..Len(AsTuple(TheList("motion").items)) :
                  check_mouse_at_rest(AsTuple(TheList("motion").items)[i]))
          => (op'.pc = "idle" /\ queue'["motion"] = None)]_vars

\* C23: once the gesture is marked finished no motion event changes the
\* entity's transform: an event that is not at rest and is drained while
\* finished is skipped, and the only write after finish() is the restore of
\* end_modal.  While the finished gesture runs the matrix is the one it was
\* when finished was set; once it has ended the matrix is the start matrix
\* after a cancel and still that one after a confirm.
C23_FinishedGestureAppliesNothing ==
    (hGest.frozen # None /\ op.pc # "raised")
    => /\ op.pc = "modal" => (op.finished /\ target.matrix = hGest.frozen[1])
       /\ op.pc = "idle"
          => target.matrix = IF hGest.ended = Some("cancel")
                             THEN hGest.start[1] ELSE hGest.frozen[1]
       /\ hGest.applied # None => hGest.frozen[1] = hGest.applied[1]
\* A terminating input came after an event had moved the entity; then an
\* event that was not at rest was drained and skipped, and the gesture still
\* runs.
C23_Witness ==
    /\ hGest.swallowed
    /\ op.pc = "modal"
    /\ op.finished
    /\ TheList("motion").items = <<>>
    /\ hGest.applied # None
    /\ hGest.frozen = hGest.applied
    /\ hGest.frozen # hGest.start
    /\ target.matrix = hGest.frozen[1]

\* C24: when the gesture is finished and an at-rest event is drained, the
\* gesture ends at that event: a modal call that has the gesture finished
\* and an at-rest event in its batch runs end_modal (the session attributes
\* are reset, the start transform is restored on cancel), applies no event,
\* the ones behind the at-rest event included, returns FINISHED (the handler
\* is gone) and leaves the motion queue inactive.
C24_EndsAtRestEvent ==
    [][(/\ op.pc = "modal"
        /\ hGest'.motions = hGest.motions
        /\ hGest'.frozen # None
        /\ \E i \in 1..Len(AsTuple(TheList("motion").items)) :
               check_mouse_at_rest(AsTuple(TheList("motion").items)[i]))
       => /\ op'.pc = "idle"
          /\ hGest'.ended # None
          /\ queue'["motion"] = None
          /\ ~op'.finished /\ ~op'.mouse_at_rest /\ ~op'.should_undo
          /\ op'.initial_transform = None /\ op'.bend_transform = None
          /\ hGest'.applied = hGest.applied
          /\ target'.matrix = IF hGest'.ended = Some("cancel")
                              THEN hGest.start[1] ELSE target.matrix]_vars
\* A gesture was confirmed and ended at an at-rest event that had another
\* event behind it in the batch.
C24_Witness ==
    /\ hGest.left # None
    /\ hGest.left[1] > 0
    /\ hGest.ended = Some("confirm")
    /\ op.pc = "idle"
    /\ queue["motion"] = None

\* C25: in bend mode motion events do not accumulate.  An event that finds
\* bend mode on and no anchor records the pose it finds as the anchor; the
\* pose an event leaves is the anchor with the delta of this event alone:
\* under the identity view, identity preferences, object mode, no per-axis
\* lock and no gesture lock, the position is the anchor's plus 8 times
\* (tx, tz, ty) and the orientation is the anchor's turned by 16 times
\* (rx, ry, -rz), whatever events came before.
C25_BendAppliesOnAnchor ==
    (hGest.last # None /\ hGest.last[1].o.bend_mode)
    => LET l == hGest.last[1]
           anchor == l.o.bend_transform[1]
           t == l.mo.translation
           r == l.mo.rotation
       IN  /\ l.o.bend_transform # None
           /\ l.anchor = None => anchor = l.found
           /\ l.anchor # None => anchor = l.anchor[1]
           /\ (/\ ctx = Context("OBJECT", Some(Identity3), IdentityPreferences)
               /\ target.lock_location = NoFlags
               /\ target.lock_rotation = NoFlags
               /\ ~l.o.locked_rotate /\ ~l.o.locked_translate)
              => hGest.applied =
                     Some(Pose(VecAdd(anchor.loc,
                                      VecScale(<<t[1], t[3], t[2]>>,
                                               BENT_TRANSLATE_MOD)),
                               MatMul(EulerToMatrix(
                                          VecScale(<<r[1], r[2], -r[3]>>,
                                                   BENT_ROTATE_MOD)),
                                      anchor.rot)))

\* C26: in bend mode with an anchor recorded and the gesture not finished,
\* an at-rest motion event leaves the entity at the anchor: after such an
\* event has been processed (mouse_at_rest is true) the entity's matrix is
\* the anchor.
C26_RestEventReturnsToAnchor ==
    (/\ op.pc = "modal"
     /\ op.bend_mode
     /\ op.bend_transform # None
     /\ ~op.finished
     /\ op.mouse_at_rest)
    => target.matrix = op.bend_transform[1]

\* C27: an anchor exists only while bend mode is on: in every reachable
\* state bend_transform is not None only if bend_mode is true.
C27_AnchorOnlyInBendMode == op.bend_transform # None => op.bend_mode
\* An anchor had been recorded and bend mode was then toggled off: the
\* toggle dropped the anchor, and the gesture goes on.
C27_Witness ==
    /\ op.pc = "modal"
    /\ hGest.cleared # None
    /\ hGest.applied # None
    /\ ~op.bend_mode
    /\ op.bend_transform = None

\* C28: a per-axis location lock is never overridden during a gesture: on
\* every axis whose lock_location flag is set the entity's position, after
\* any sequence of motion events, bend resets and bend toggles, and after the
\* end of the gesture, is the position it had when the gesture started.
C28_LockedAxisKeepsPosition ==
    (hGest.start # None /\ op.pc # "raised")
    => \A i \in Axes :
           target.lock_location[i]
           => target.matrix.loc[i] = hGest.start[1].loc[i]
\* On an entity with a locked axis an event was applied on a bend anchor
\* (after the reset to the anchor) and moved the entity on another axis.
C28_Witness ==
    /\ \E i \in Axes : target.lock_location[i]
    /\ hGest.last # None
    /\ hGest.last[1].o.bend_mode
    /\ hGest.last[1].anchor # None
    /\ hGest.last[1].translated
    /\ target.matrix.loc # hGest.start[1].loc

\* C29: mode gating of the gesture locks.  In pose mode every applied motion
\* event calls rotate_target, also when locked_rotate is true, and never
\* translate_target, also when locked_translate is false; outside pose mode
\* an event calls rotate_target iff locked_rotate is false and
\* translate_target iff locked_translate is false.
C29_ModeGatesTheLocks ==
    hGest.last # None
    => LET l == hGest.last[1]
       IN  IF ctx.mode = "POSE"
           THEN l.rotated /\ ~l.translated
           ELSE /\ l.rotated = ~l.o.locked_rotate
                /\ l.translated = ~l.o.locked_translate
\* In pose mode an event that found the rotation locked has turned the
\* entity and has not moved it.
C29_Witness ==
    /\ ctx.mode = "POSE"
    /\ op.pc = "modal"
    /\ hGest.last # None
    /\ hGest.last[1].o.locked_rotate
    /\ hGest.last[1].rotated
    /\ hGest.last[1].mo.translation # Origin
    /\ target.matrix.rot # hGest.last[1].found.rot
    /\ target.matrix.loc = hGest.last[1].found.loc

\* C30: should_undo reflects the most recent terminating input: it is true
\* iff the last input of type ESC, RIGHTMOUSE, LEFTMOUSE or RET was ESC or
\* RIGHTMOUSE, and finished, once a terminating input has set it, stays true
\* until end_modal.  So a gesture ends as a cancel (restoring the start
\* transform) iff its last terminating input was ESC or RIGHTMOUSE: a cancel
\* followed by a confirm before the device comes to rest ends it without
\* the restore.
C30_LastTerminatorDecides ==
    /\ op.pc = "modal"
       => IF hGest.term = None THEN ~op.finished /\ ~op.should_undo
          ELSE /\ op.finished
               /\ op.should_undo = (hGest.term[1].type \in {"ESC", "RIGHTMOUSE"})
    /\ (op.pc = "idle" /\ hGest.ended # None)
       => /\ hGest.term # None
          /\ hGest.ended = Some(IF hGest.term[1].type \in {"ESC", "RIGHTMOUSE"}
                                THEN "cancel" ELSE "confirm")
\* An event moved the entity, a cancel and later RET came in before the
\* device was at rest, and the gesture has ended without the restore.
C30_Witness ==
    /\ op.pc = "idle"
    /\ hGest.term = Some([type |-> "RET", turned |-> TRUE])
    /\ hGest.ended = Some("confirm")
    /\ hGest.applied # None
    /\ target.matrix = hGest.applied[1]
    /\ target.matrix # hGest.start[1]

\* C31: once the device descriptor is readable the worker polls until the
\* poll returns none before it waits again, so no event of the burst stays
\* in the daemon buffer, and each polled event is appended to the queue of
\* its kind iff that queue is active when the worker tests it, and is
\* dropped otherwise.  Step by step: the worker goes back to select only
\* from a poll that found the buffer empty; a wake-up does not end any other
\* way; an event whose queue is None at the test is dropped and leaves the
\* queues alone; an event whose queue is active at the test is appended and
\* is then in that queue.
C31_BurstDrainedAndRouted ==
    [][/\ (wPc \notin {"open", "select"} /\ wPc' = "select")
          => (wPc = "poll_next" /\ pending = <<>>)
       /\ (wPc \in {"poll_first", "poll_next", "check", "load", "append"})
          => wPc' # "raised"
       /\ (wPc = "check" /\ wPc' # "check")
          => IF queue[event[1].tag] = None
             THEN wPc' = "poll_next" /\ queue' = queue
             ELSE wPc' = "load"
       /\ (wPc = "load" /\ wPc' # "load") => wPc' = "append"
       /\ (wPc = "append" /\ wPc' # "append")
          => /\ queue'[event[1].tag] # None
             /\ \E i \in 1..Len(queue'[event[1].tag][1].items) :
                    queue'[event[1].tag][1].items[i].id = event[1].id]_vars

\* C33: the two mode locks are never both set.  Whatever init_locks,
\* reset_locks and flip_locks have done so far (through invoke and the
\* lock-toggle and lock-reset keys), locked_rotate and locked_translate are
\* not both true; flip_locks applied to the both-unlocked state gives
\* translate-locked, and applied to a locked state it gives the other lock;
\* and a step changes the locks only to what one of the three gives.
C33_LocksNeverBothSet ==
    [][/\ ~(op.locked_rotate /\ op.locked_translate)
       /\ ~(op'.locked_rotate /\ op'.locked_translate)
       /\ LET f == flip_locks(op)
          IN  IF ~op.locked_rotate /\ ~op.locked_translate
              THEN f.locked_translate /\ ~f.locked_rotate
              ELSE /\ f.locked_translate = op.locked_rotate
                   /\ f.locked_rotate = op.locked_translate
                   /\ f.locked_translate # f.locked_rotate
       /\ <<op'.locked_rotate, op'.locked_translate>>
              \in {<<o.locked_rotate, o.locked_translate>> :
                     o \in {op, init_locks(op), reset_locks(op), flip_locks(op)}}]_vars
\* The lock-toggle key has turned the translate lock of a started gesture
\* into the rotate lock.
C33_Witness ==
    /\ op.pc = "modal"
    /\ op.locked_rotate
    /\ ~op.locked_translate

\* C32: a rotation update never moves the entity and a translation update
\* never turns it.  For the last applied motion event, with `pre` the pose
\* before its updates and `mid` the pose between rotate_target and
\* translate_target: if rotate_target ran, the position after it is the
\* position before it; if translate_target ran, the orientation after it is
\* the orientation before it; an update that did not run changed nothing.
C32_RotateKeepsPlaceTranslateKeepsTurn ==
    (hGest.last # None /\ op.pc = "modal")
    => LET l == hGest.last[1]
       IN  /\ IF l.rotated THEN l.mid.loc = l.pre.loc ELSE l.mid = l.pre
           /\ IF l.translated THEN target.matrix.rot = l.mid.rot
              ELSE target.matrix = l.mid
\* One event has both turned the entity at a position off the origin and
\* moved it, under a view that is not the identity.
C32_Witness ==
    /\ op.pc = "modal"
    /\ hGest.last # None
    /\ hGest.last[1].rotated
    /\ hGest.last[1].translated
    /\ hGest.last[1].pre.loc # Origin
    /\ hGest.last[1].mid.rot # hGest.last[1].pre.rot
    /\ target.matrix.loc # hGest.last[1].mid.loc
    /\ ctx.view # None
    /\ ctx.view[1] # Identity3

====
